---- MODULE Spec2Model ----
(***************************************************************************)
(* Model of src/agent.py: the provider agent's start-up, its heartbeat /   *)
(* poll loop, poll_for_task (workspace, sandbox launch, log streaming,     *)
(* await, result packaging, status reports, cleanup) and signal_handler.   *)
(*                                                                         *)
(* One action per external call of the code; each call that can raise in   *)
(* Python has a failing outcome.  pc is the statement the main thread is   *)
(* about to execute.  An interrupt is delivered between two statements:    *)
(* signal_handler runs as a whole and the SystemExit it raises unwinds     *)
(* from the statement at pc through the try blocks that enclose it.        *)
(***************************************************************************)
EXTENDS Integers, Sequences, FiniteSets, TLC

\* ---- bounds of the model ------------------------------------------------
MaxPolls == 2
MaxLines == 2
MaxSignals == 1
Lines == {"a", "b"}
ExitCodes == {0, 1}

\* ---- program constants --------------------------------------------------
HeartbeatInterval == 10
PollInterval == 2
WaitTimeout == 300

VARIABLES
  pc,             \* statement the main thread is at
  exitCode,       \* process exit code, -1 while the process runs
  exitReason,     \* which start-up statement ended the process, if one did
  signals,        \* interrupts delivered so far
  offline,        \* offline heartbeats attempted by signal_handler
  offlineOutcome, \* outcome of the offline push whose SystemExit is in flight
  interruptedAt,  \* statement at which that SystemExit was raised; both are
                  \* forgotten when it is caught or poll_for_task has returned
  registered,     \* a registration request succeeded
  elapsed,        \* time.time() - last_heartbeat, capped at HeartbeatInterval
  polls,          \* get_task requests issued
  lastPoll,       \* response to the get_task request of this poll cycle
  hbOutcome,      \* outcome of this iteration's send_heartbeat request
  taskId,         \* task_id of the task of this poll cycle, 0 if none
  hasUrl,         \* the task carries upload_url
  bound,          \* local variable container is bound
  sbRunning,      \* the sandbox of this cycle has not exited yet
  wsFiles,        \* the workspace of the current task holds files
  full_logs,      \* accumulated log buffer
  result,         \* result['StatusCode'], -1 before wait returned
  pending,        \* "exit" while a SystemExit unwinds through finally
  errText,        \* str(e) of the exception caught at line 272
  retval,         \* value poll_for_task returned
  workspaces,     \* task ids whose workspace directory exists
  containers,     \* task ids whose sandbox instance exists
  zips,           \* task ids whose results_<id>.zip exists
  sent,           \* task_update requests issued in this poll cycle
  archivesMade,   \* archives produced in this poll cycle
  uploadAttempts, \* PUT requests issued in this poll cycle
  stopAttempts,   \* c.stop() calls in this poll cycle
  removeAttempts, \* container.remove() / c.remove() calls in this cycle
  timedOut,       \* container.wait hit its timeout in this cycle
  rmtreeFailed    \* shutil.rmtree raised in this cycle

procVars == <<exitCode, signals, offline, offlineOutcome, interruptedAt>>
loopVars == <<registered, elapsed, polls, hbOutcome>>
taskVars == <<taskId, hasUrl, bound, sbRunning, wsFiles, full_logs, result, pending, errText, retval>>
envVars == <<workspaces, containers, zips>>
histVars == <<sent, archivesMade, uploadAttempts, stopAttempts,
              removeAttempts, timedOut, rmtreeFailed>>
vars == <<pc, lastPoll, exitReason, procVars, loopVars, taskVars, envVars, histVars>>

\* ---- helpers ------------------------------------------------------------
Min(a, b) == IF a < b THEN a ELSE b

\* the payload of update_task_status (lines 188-193); no call of it (lines
\* 233, 264, 268, 274) passes result_url, so the field is the default None
Update(status, kind, text) ==
  [status |-> status, kind |-> kind, text |-> text, result_url |-> "None"]

Terminal == {"COMPLETED", "FAILED"}

TerminalUpdates == {i \in 1..Len(sent) : sent[i].status \in Terminal}

\* top of the while loop: heartbeat when due, else straight to the poll
LoopHead(e) == IF e >= HeartbeatInterval THEN "hb_telemetry" ELSE "poll"

\* Accepts without the status test of line 203
Accepts_NoStatusCheck(r) == r.kind = "response" /\ r.task

\* lines 203-208: the poll response carries a task the agent accepts
Accepts(r) == r.kind = "response" /\ r.status = 200 /\ r.task

NoPoll == [kind |-> "none", status |-> 0, task |-> FALSE]

\* what the get_task request of line 202 can come back with
PollResponses ==
  {[kind |-> "error", status |-> 0, task |-> FALSE]} \cup
  [kind : {"response"}, status : {200, 500}, task : BOOLEAN]

\* Classify without the upload_url test of line 250
Classify_IgnoresUrl(code, files, url) ==
  IF code = 0
    THEN IF files THEN "archive" ELSE "report_completed"
    ELSE "report_failed"

\* Classify with the exit-code test of line 246 inverted
Classify_Inverted(code, files, url) ==
  IF code # 0
    THEN IF files /\ url THEN "archive" ELSE "report_completed"
    ELSE "report_failed"

\* lines 246-268: the branch taken after container.wait returned
Classify(code, files, url) ==
  IF code = 0
    THEN IF files /\ url THEN "archive" ELSE "report_completed"
    ELSE "report_failed"

\* statements inside the try of lines 216-270 and the handler line 274:
\* only `except Exception` and `finally` enclose them
InnerTry == {"launch", "report_running", "stream", "wait", "archive", "upload",
             "rmzip", "report_completed", "report_failed", "remove", "exc_report"}

\* statements inside the try / bare except of lines 275-281
CleanupTry == {"get", "stop", "remove2"}

\* SignalEffect as if the sleep of line 319 sat inside a bare except
SignalEffect_SleepCaught(at) ==
  IF at \in InnerTry THEN {"unwind"}
  ELSE IF at \in CleanupTry \cup {"hb_post", "sleep"} THEN {"caught"}
  ELSE IF at \in {"hb_telemetry", "reg_telemetry"}
    THEN {"exit", "caught"}
  ELSE {"exit"}

\* what the SystemExit raised by signal_handler does at statement `at`:
\* "exit" leaves the process, "unwind" runs the finally of line 282 first,
\* "caught" is swallowed by a bare except.  get_telemetry is either in its
\* CPU sample (line 90, no handler) or, with a GPU, inside the try of lines
\* 100-110, whose bare except swallows it.
SignalEffect(at) ==
  IF at \in InnerTry THEN {"unwind"}
  ELSE IF at \in CleanupTry \cup {"hb_post"} THEN {"caught"}
  ELSE IF at \in {"hb_telemetry", "reg_telemetry"}
    THEN {"exit", "caught"}
  ELSE {"exit"}

\* where execution resumes after a bare except swallowed an exception
Resume(at) ==
  CASE at = "hb_post" -> "poll"
    [] at = "hb_telemetry" -> "hb_post"
    [] at = "reg_telemetry" -> "reg_post"
    [] at \in CleanupTry -> "finally"
    [] OTHER -> at

Init ==
  /\ pc = "start"
  /\ exitCode = -1
  /\ exitReason = "none"
  /\ signals = 0
  /\ offline = 0
  /\ offlineOutcome = "none"
  /\ interruptedAt = "none"
  /\ registered = FALSE
  /\ elapsed = HeartbeatInterval
  /\ polls = 0
  /\ lastPoll = NoPoll
  /\ hbOutcome = "none"
  /\ taskId = 0
  /\ hasUrl = FALSE
  /\ bound = FALSE
  /\ sbRunning = FALSE
  /\ wsFiles = FALSE
  /\ full_logs = <<>>
  /\ result = -1
  /\ pending = "none"
  /\ errText = "none"
  /\ retval = FALSE
  /\ workspaces = {}
  /\ containers = {}
  /\ zips = {}
  /\ sent = <<>>
  /\ archivesMade = 0
  /\ uploadAttempts = 0
  /\ stopAttempts = 0
  /\ removeAttempts = 0
  /\ timedOut = FALSE
  /\ rmtreeFailed = FALSE

Exit(code) == pc' = "exited" /\ exitCode' = code

\* variables of the process that no statement reads once it has exited
memVars == <<elapsed, hbOutcome, hasUrl, bound, full_logs, result, pending, errText>>

\* sys.exit(code) reaches the top level: the process and its memory are gone
Halt(code) ==
  /\ Exit(code)
  /\ elapsed' = 0
  /\ hbOutcome' = "none"
  /\ hasUrl' = FALSE
  /\ bound' = FALSE
  /\ full_logs' = <<>>
  /\ result' = -1
  /\ pending' = "none"
  /\ errText' = "none"
  /\ retval' = FALSE

\* an Exception that no handler catches ends the process
Raise_Uncaught(text) == pc' = "exited" /\ errText' = text

\* an Exception raised inside the try of lines 216-270
Raise(text) == pc' = "exc_report" /\ errText' = text

\* ---- start-up (lines 294-311) -------------------------------------------
EnrollDevice ==
  /\ UNCHANGED lastPoll
  /\ pc = "start"
  /\ \E ok \in BOOLEAN :
       /\ Exit(IF ok THEN 0 ELSE 1)
       /\ exitReason' = IF ok THEN "enrolled" ELSE "enrollfail"
  /\ UNCHANGED <<signals, offline, offlineOutcome, interruptedAt>>
  /\ UNCHANGED <<loopVars, taskVars, envVars, histVars>>

CheckCredentials ==
  /\ UNCHANGED lastPoll
  /\ pc = "start"
  /\ \E have \in BOOLEAN :
       IF have THEN /\ pc' = "reg_telemetry"
                    /\ UNCHANGED <<exitCode, exitReason>>
               ELSE /\ Exit(1)
                    /\ exitReason' = "nocreds"
  /\ UNCHANGED <<signals, offline, offlineOutcome, interruptedAt>>
  /\ UNCHANGED <<loopVars, taskVars, envVars, histVars>>

GetTelemetry ==
  /\ UNCHANGED <<lastPoll, exitReason>>
  /\ pc \in {"reg_telemetry", "hb_telemetry"}
  /\ pc' = Resume(pc)
  /\ UNCHANGED <<procVars, loopVars, taskVars, envVars, histVars>>

\* RegisterNext without the exit(1) of line 159
RegisterNext_IgnoresFailure(ok) == LoopHead(elapsed)

\* lines 153-159, 311-314: the loop is entered after a successful
\* registration request, a failed one ends the process
RegisterNext(ok) == IF ok THEN LoopHead(elapsed) ELSE "exited"

RegisterProvider ==
  /\ UNCHANGED lastPoll
  /\ pc = "reg_post"
  /\ \E ok \in BOOLEAN :
       /\ pc' = RegisterNext(ok)
       /\ registered' = ok
       /\ exitCode' = IF pc' = "exited" THEN 1 ELSE exitCode
       /\ exitReason' = IF pc' = "exited" THEN "regfail" ELSE exitReason
  /\ UNCHANGED <<signals, offline, offlineOutcome, interruptedAt>>
  /\ UNCHANGED <<elapsed, polls, hbOutcome>>
  /\ UNCHANGED <<taskVars, envVars, histVars>>

\* ---- the loop (lines 312-319) -------------------------------------------
\* HeartbeatNext without the try / except of lines 181-184
HeartbeatNext_Uncaught(o) == IF o = "error" THEN "exited" ELSE "poll"

\* lines 181-184, 316-318: every outcome of the request is swallowed and
\* the loop goes on to poll_for_task
HeartbeatNext(o) == "poll"

SendHeartbeat ==
  /\ UNCHANGED <<lastPoll, exitReason>>
  /\ pc = "hb_post"
  /\ \E o \in {"ok", "errresp", "error"} :
       /\ hbOutcome' = o
       /\ pc' = HeartbeatNext(o)
       /\ exitCode' = IF pc' = "exited" THEN 1 ELSE exitCode
  /\ elapsed' = 0
  /\ UNCHANGED <<signals, offline, offlineOutcome, interruptedAt>>
  /\ UNCHANGED <<registered, polls>>
  /\ UNCHANGED <<taskVars, envVars, histVars>>

Sleep ==
  /\ UNCHANGED <<lastPoll, exitReason>>
  /\ pc = "sleep"
  /\ elapsed' = Min(elapsed + PollInterval, HeartbeatInterval)
  /\ pc' = LoopHead(elapsed')
  /\ hbOutcome' = "none"
  /\ UNCHANGED <<procVars, registered, polls>>
  /\ UNCHANGED <<taskVars, envVars, histVars>>

\* ---- poll_for_task (lines 199-290) --------------------------------------
ClearTask ==
  /\ taskId' = 0
  /\ hasUrl' = FALSE
  /\ bound' = FALSE
  /\ sbRunning' = FALSE
  /\ wsFiles' = FALSE
  /\ full_logs' = <<>>
  /\ result' = -1
  /\ pending' = "none"
  /\ errText' = "none"
  /\ sent' = <<>>
  /\ archivesMade' = 0
  /\ uploadAttempts' = 0
  /\ stopAttempts' = 0
  /\ removeAttempts' = 0
  /\ timedOut' = FALSE
  /\ rmtreeFailed' = FALSE

\* lines 200-212: the get_task request and the acceptance of its task
Poll ==
  /\ UNCHANGED exitReason
  /\ pc = "poll"
  /\ polls < MaxPolls
  /\ polls' = polls + 1
  /\ \E r \in PollResponses :
       /\ lastPoll' = r
       /\ IF Accepts(r)
            THEN /\ taskId' = polls + 1
                 /\ hasUrl' \in BOOLEAN
                 /\ pc' = "mkdtemp"
                 /\ retval' = retval
            ELSE /\ pc' = "ret"
                 /\ retval' = FALSE
                 /\ UNCHANGED <<taskId, hasUrl>>
  /\ UNCHANGED <<procVars, registered, elapsed, hbOutcome>>
  /\ UNCHANGED <<bound, sbRunning, wsFiles, full_logs, result, pending, errText>>
  /\ UNCHANGED <<envVars, histVars>>

\* line 214; an error here is caught by the except of line 288
Mkdtemp ==
  /\ UNCHANGED <<lastPoll, exitReason>>
  /\ pc = "mkdtemp"
  /\ \E ok \in BOOLEAN :
       IF ok THEN /\ workspaces' = workspaces \cup {taskId}
                  /\ pc' = "launch"
                  /\ retval' = retval
             ELSE /\ workspaces' = workspaces
                  /\ pc' = "ret"
                  /\ retval' = FALSE
  /\ UNCHANGED <<procVars, loopVars, histVars>>
  /\ UNCHANGED <<taskId, hasUrl, bound, sbRunning, wsFiles, full_logs, result, pending, errText>>
  /\ UNCHANGED <<containers, zips>>

\* the launch followed at once by the log loop of line 238
AfterLaunch_NoRunning == "stream"

\* line 233: the statement after a successful containers.run
AfterLaunch == "report_running"

\* lines 218-231
Launch ==
  /\ UNCHANGED <<lastPoll, exitReason>>
  /\ pc = "launch"
  /\ \E ok \in BOOLEAN :
       IF ok THEN /\ containers' = containers \cup {taskId}
                  /\ sbRunning' = TRUE
                  /\ bound' = TRUE
                  /\ pc' = AfterLaunch
                  /\ errText' = errText
             ELSE /\ Raise("launch")
                  /\ UNCHANGED <<containers, sbRunning, bound>>
  /\ UNCHANGED <<procVars, loopVars, histVars>>
  /\ UNCHANGED <<taskId, hasUrl, wsFiles, full_logs, result, pending, retval>>
  /\ UNCHANGED <<workspaces, zips>>

\* update_task_status (lines 186-197): the request is issued; whether it got
\* through or raised changes nothing (the error is printed and swallowed)
UpdateTaskStatus(status, kind, text) ==
  sent' = Append(sent, Update(status, kind, text))

\* lines 233-236
ReportRunning ==
  /\ UNCHANGED <<lastPoll, exitReason>>
  /\ pc = "report_running"
  /\ UpdateTaskStatus("RUNNING", "none", <<>>)
  /\ full_logs' = <<>>
  /\ pc' = "stream"
  /\ UNCHANGED <<procVars, loopVars, envVars>>
  /\ UNCHANGED <<taskId, hasUrl, bound, sbRunning, wsFiles, result, pending, errText, retval>>
  /\ UNCHANGED <<archivesMade, uploadAttempts, stopAttempts, removeAttempts,
                 timedOut, rmtreeFailed>>

\* lines 238-241: one line of the stream is consumed
StreamLine ==
  /\ UNCHANGED <<lastPoll, exitReason>>
  /\ pc = "stream"
  /\ Len(full_logs) < MaxLines
  /\ \E chunk \in Lines : full_logs' = Append(full_logs, chunk)
  /\ wsFiles' = wsFiles
  /\ pc' = "stream"
  /\ UNCHANGED <<procVars, loopVars, envVars, histVars>>
  /\ UNCHANGED <<taskId, hasUrl, bound, sbRunning, result, pending, errText, retval>>

\* line 238 ends: the stream closed, with the sandbox exited or still
\* running; wsFiles is what the sandbox has written to /outputs by then
StreamEnd ==
  /\ UNCHANGED <<lastPoll, exitReason>>
  /\ pc = "stream"
  /\ sbRunning' \in {TRUE, FALSE}
  /\ wsFiles' \in BOOLEAN
  /\ pc' = "wait"
  /\ UNCHANGED <<procVars, loopVars, histVars>>
  /\ UNCHANGED <<taskId, hasUrl, bound, full_logs, result, pending, errText, retval>>
  /\ UNCHANGED <<workspaces, containers, zips>>

\* line 238 raises
StreamError ==
  /\ UNCHANGED <<lastPoll, exitReason>>
  /\ pc = "stream"
  /\ Raise("stream")
  /\ UNCHANGED <<procVars, loopVars, envVars, histVars>>
  /\ UNCHANGED <<taskId, hasUrl, bound, sbRunning, wsFiles, full_logs, result, pending, retval>>

\* lines 244-250, 266: the sandbox has exited or exits within the bound
WaitReturns ==
  /\ UNCHANGED <<lastPoll, exitReason>>
  /\ pc = "wait"
  /\ \E code \in ExitCodes :
       /\ result' = code
       /\ pc' = Classify(code, wsFiles, hasUrl)
  /\ sbRunning' = FALSE
  /\ UNCHANGED <<procVars, loopVars, histVars>>
  /\ UNCHANGED <<taskId, hasUrl, bound, wsFiles, full_logs, pending, errText, retval>>
  /\ UNCHANGED <<workspaces, containers, zips>>

\* line 244 raises after WaitTimeout: the sandbox is still running
WaitTimesOut ==
  /\ UNCHANGED <<lastPoll, exitReason>>
  /\ pc = "wait"
  /\ sbRunning
  /\ timedOut' = TRUE
  /\ Raise("timeout")
  /\ elapsed' = Min(elapsed + WaitTimeout, HeartbeatInterval)
  /\ UNCHANGED <<procVars, registered, polls, hbOutcome, envVars>>
  /\ UNCHANGED <<taskId, hasUrl, bound, sbRunning, wsFiles, full_logs, result, pending, retval>>
  /\ UNCHANGED <<sent, archivesMade, uploadAttempts, stopAttempts,
                 removeAttempts, rmtreeFailed>>

\* line 244 raises for another reason (API error)
WaitError ==
  /\ UNCHANGED <<lastPoll, exitReason>>
  /\ pc = "wait"
  /\ Raise("wait")
  /\ UNCHANGED <<procVars, loopVars, envVars, histVars>>
  /\ UNCHANGED <<taskId, hasUrl, bound, sbRunning, wsFiles, full_logs, result, pending, retval>>

\* line 251
MakeArchive ==
  /\ UNCHANGED <<lastPoll, exitReason>>
  /\ pc = "archive"
  /\ \E ok \in BOOLEAN :
       IF ok THEN /\ zips' = zips \cup {taskId}
                  /\ archivesMade' = archivesMade + 1
                  /\ pc' = "upload"
                  /\ errText' = errText
             ELSE /\ Raise("archive")
                  /\ UNCHANGED <<zips, archivesMade>>
  /\ UNCHANGED <<procVars, loopVars>>
  /\ UNCHANGED <<taskId, hasUrl, bound, sbRunning, wsFiles, full_logs, result, pending, retval>>
  /\ UNCHANGED <<workspaces, containers>>
  /\ UNCHANGED <<sent, uploadAttempts, stopAttempts, removeAttempts,
                 timedOut, rmtreeFailed>>

\* lines 253-261: one PUT; only a raised error leaves the success path
Upload ==
  /\ UNCHANGED <<lastPoll, exitReason>>
  /\ pc = "upload"
  /\ uploadAttempts' = uploadAttempts + 1
  /\ \E o \in {"200", "non2xx", "error"} :
       IF o = "error" THEN Raise("upload")
                      ELSE pc' = "rmzip" /\ errText' = errText
  /\ UNCHANGED <<procVars, loopVars, envVars>>
  /\ UNCHANGED <<taskId, hasUrl, bound, sbRunning, wsFiles, full_logs, result, pending, retval>>
  /\ UNCHANGED <<sent, archivesMade, stopAttempts, removeAttempts,
                 timedOut, rmtreeFailed>>

\* line 262
RemoveZip ==
  /\ UNCHANGED <<lastPoll, exitReason>>
  /\ pc = "rmzip"
  /\ \E ok \in BOOLEAN :
       IF ok THEN /\ zips' = zips \ {taskId}
                  /\ pc' = "report_completed"
                  /\ errText' = errText
             ELSE /\ Raise("rmzip")
                  /\ zips' = zips
  /\ UNCHANGED <<procVars, loopVars, histVars>>
  /\ UNCHANGED <<taskId, hasUrl, bound, sbRunning, wsFiles, full_logs, result, pending, retval>>
  /\ UNCHANGED <<workspaces, containers>>

\* line 264
ReportCompleted ==
  /\ UNCHANGED <<lastPoll, exitReason>>
  /\ pc = "report_completed"
  /\ UpdateTaskStatus("COMPLETED", "log", full_logs)
  /\ pc' = "remove"
  /\ UNCHANGED <<procVars, loopVars, taskVars, envVars>>
  /\ UNCHANGED <<archivesMade, uploadAttempts, stopAttempts, removeAttempts,
                 timedOut, rmtreeFailed>>

\* ReportFailed passing the exit status instead of the log buffer
ReportFailed_NoLogs ==
  /\ UNCHANGED <<lastPoll, exitReason>>
  /\ pc = "report_failed"
  /\ UpdateTaskStatus("FAILED", "log", <<"exit">>)
  /\ pc' = "remove"
  /\ UNCHANGED <<procVars, loopVars, taskVars, envVars>>
  /\ UNCHANGED <<archivesMade, uploadAttempts, stopAttempts, removeAttempts,
                 timedOut, rmtreeFailed>>

\* line 268
ReportFailed ==
  /\ UNCHANGED <<lastPoll, exitReason>>
  /\ pc = "report_failed"
  /\ UpdateTaskStatus("FAILED", "log", full_logs)
  /\ pc' = "remove"
  /\ UNCHANGED <<procVars, loopVars, taskVars, envVars>>
  /\ UNCHANGED <<archivesMade, uploadAttempts, stopAttempts, removeAttempts,
                 timedOut, rmtreeFailed>>

\* line 270, still inside the try of line 216
ContainerRemove ==
  /\ UNCHANGED <<lastPoll, exitReason>>
  /\ pc = "remove"
  /\ removeAttempts' = removeAttempts + 1
  /\ \E ok \in BOOLEAN :
       IF ok THEN /\ containers' = containers \ {taskId}
                  /\ pc' = "finally"
                  /\ errText' = errText
             ELSE /\ Raise("remove")
                  /\ containers' = containers
  /\ UNCHANGED <<procVars, loopVars>>
  /\ UNCHANGED <<taskId, hasUrl, bound, sbRunning, wsFiles, full_logs, result, pending, retval>>
  /\ UNCHANGED <<workspaces, zips>>
  /\ UNCHANGED <<sent, archivesMade, uploadAttempts, stopAttempts,
                 timedOut, rmtreeFailed>>

\* lines 272-274
ReportException ==
  /\ UNCHANGED <<lastPoll, exitReason>>
  /\ pc = "exc_report"
  /\ UpdateTaskStatus("FAILED", "err", <<errText>>)
  /\ pc' = "get"
  /\ UNCHANGED <<procVars, loopVars, taskVars, envVars>>
  /\ UNCHANGED <<archivesMade, uploadAttempts, stopAttempts, removeAttempts,
                 timedOut, rmtreeFailed>>

\* a lookup that succeeds whether or not a sandbox was launched
Lookup_Always == TRUE

\* line 277 can yield a container only if the local `container` was bound
\* at line 218 and the sandbox still exists
Lookup == bound /\ taskId \in containers

\* line 277: container.id raises when the launch failed (container unbound);
\* the lookup itself can fail; either is swallowed by the except of line 280
ContainersGet ==
  /\ UNCHANGED <<lastPoll, exitReason>>
  /\ pc = "get"
  /\ IF Lookup
       THEN pc' \in {"stop", "finally"}
       ELSE pc' = "finally"
  /\ UNCHANGED <<procVars, loopVars, taskVars, envVars, histVars>>

\* line 278
ContainerStop ==
  /\ UNCHANGED <<lastPoll, exitReason>>
  /\ pc = "stop"
  /\ stopAttempts' = stopAttempts + 1
  /\ \E ok \in BOOLEAN :
       IF ok THEN sbRunning' = FALSE /\ pc' = "remove2"
             ELSE sbRunning' = sbRunning /\ pc' = "finally"
  /\ UNCHANGED <<procVars, loopVars>>
  /\ UNCHANGED <<taskId, hasUrl, bound, wsFiles, full_logs, result, pending, errText, retval>>
  /\ UNCHANGED <<workspaces, containers, zips>>
  /\ UNCHANGED <<sent, archivesMade, uploadAttempts, removeAttempts,
                 timedOut, rmtreeFailed>>

\* line 279
ContainerRemove2 ==
  /\ UNCHANGED <<lastPoll, exitReason>>
  /\ pc = "remove2"
  /\ removeAttempts' = removeAttempts + 1
  /\ containers' \in {containers, containers \ {taskId}}
  /\ pc' = "finally"
  /\ UNCHANGED <<procVars, loopVars, taskVars>>
  /\ UNCHANGED <<workspaces, zips>>
  /\ UNCHANGED <<sent, archivesMade, uploadAttempts, stopAttempts,
                 timedOut, rmtreeFailed>>

\* Finally without the rmtree of line 284
Finally_NoRmtree ==
  /\ UNCHANGED <<lastPoll, exitReason>>
  /\ pc = "finally"
  /\ IF pending = "exit"
       THEN Halt(0)
       ELSE /\ pc' = "ret"
            /\ retval' = TRUE
            /\ UNCHANGED <<exitCode, memVars>>
  /\ UNCHANGED <<signals, offline, offlineOutcome, interruptedAt>>
  /\ UNCHANGED <<registered, polls, taskId, sbRunning, wsFiles>>
  /\ UNCHANGED <<envVars, histVars>>

\* lines 282-290: the finally clause.  An error of rmtree replaces whatever
\* was unwinding and is caught by the except of line 288
Finally ==
  /\ UNCHANGED <<lastPoll, exitReason>>
  /\ pc = "finally"
  /\ \E ok \in BOOLEAN :
       IF ok \/ taskId \notin workspaces
         THEN /\ workspaces' = workspaces \ {taskId}
              /\ rmtreeFailed' = rmtreeFailed
              /\ IF pending = "exit"
                   THEN Halt(0) /\ UNCHANGED <<interruptedAt, offlineOutcome>>
                   ELSE /\ pc' = "ret"
                        /\ retval' = TRUE
                        /\ UNCHANGED <<exitCode, memVars, interruptedAt, offlineOutcome>>
         ELSE /\ workspaces' = workspaces
              /\ rmtreeFailed' = TRUE
              /\ pc' = "ret"
              /\ retval' = FALSE
              /\ pending' = "none"
              /\ UNCHANGED <<exitCode, elapsed, hbOutcome, hasUrl, bound, full_logs,
                             result, errText, interruptedAt, offlineOutcome>>
  /\ UNCHANGED <<signals, offline>>
  /\ UNCHANGED <<registered, polls, taskId, sbRunning, wsFiles>>
  /\ UNCHANGED <<containers, zips>>
  /\ UNCHANGED <<sent, archivesMade, uploadAttempts, stopAttempts, removeAttempts,
                 timedOut>>

\* poll_for_task has returned; line 318 discards the value and the loop
\* goes to its sleep (line 319)
Return ==
  /\ UNCHANGED exitReason
  /\ pc = "ret"
  /\ pc' = "sleep"
  /\ ClearTask
  /\ lastPoll' = NoPoll
  /\ interruptedAt' = "none"
  /\ offlineOutcome' = "none"
  /\ retval' = FALSE
  /\ UNCHANGED <<exitCode, signals, offline, loopVars, envVars>>

\* ---- signal_handler (lines 162-176) --------------------------------------
Interrupt ==
  /\ UNCHANGED <<lastPoll, exitReason>>
  /\ pc # "exited"
  /\ signals < MaxSignals
  /\ signals' = signals + 1
  /\ offline' = offline + 1
  /\ \E eff \in SignalEffect(pc), o \in {"ok", "fail", "timeout"} :
       CASE eff = "exit" ->
              /\ Halt(0)
              /\ interruptedAt' = pc
              /\ offlineOutcome' = o
         [] eff = "unwind" ->
              /\ pc' = "finally"
              /\ pending' = "exit"
              /\ interruptedAt' = pc
              /\ offlineOutcome' = o
              /\ UNCHANGED <<exitCode, elapsed, hbOutcome, hasUrl, bound, full_logs,
                             result, errText, retval>>
         [] eff = "caught" ->
              /\ pc' = Resume(pc)
              /\ interruptedAt' = "none"
              /\ offlineOutcome' = "none"
              /\ elapsed' = IF pc = "hb_post" THEN 0 ELSE elapsed
              /\ hbOutcome' = IF pc = "hb_post" THEN "interrupted" ELSE hbOutcome
              /\ UNCHANGED <<exitCode, pending, hasUrl, bound, full_logs, result,
                             errText, retval>>
  /\ UNCHANGED <<registered, polls, taskId, sbRunning, wsFiles>>
  /\ UNCHANGED <<envVars, histVars>>

Next ==
  \/ EnrollDevice
  \/ CheckCredentials
  \/ GetTelemetry
  \/ RegisterProvider
  \/ SendHeartbeat
  \/ Sleep
  \/ Poll
  \/ Mkdtemp
  \/ Launch
  \/ ReportRunning
  \/ StreamLine
  \/ StreamEnd
  \/ StreamError
  \/ WaitReturns
  \/ WaitTimesOut
  \/ WaitError
  \/ MakeArchive
  \/ Upload
  \/ RemoveZip
  \/ ReportCompleted
  \/ ReportFailed
  \/ ContainerRemove
  \/ ReportException
  \/ ContainersGet
  \/ ContainerStop
  \/ ContainerRemove2
  \/ Finally
  \/ Return
  \/ Interrupt

Spec == Init /\ [][Next]_vars

\* the steps the agent takes by itself: every call it makes returns or raises
\* (container.wait is bounded by timeout=300, line 244).  Not among them:
\* the iteration of container.logs(stream=True, follow=True) at line 238,
\* which yields only when the sandbox writes a line or closes the stream and
\* has no timeout, and the delivery of a signal
AgentStep ==
  \/ EnrollDevice
  \/ CheckCredentials
  \/ GetTelemetry
  \/ RegisterProvider
  \/ SendHeartbeat
  \/ Sleep
  \/ Poll
  \/ Mkdtemp
  \/ Launch
  \/ ReportRunning
  \/ WaitReturns
  \/ WaitTimesOut
  \/ WaitError
  \/ MakeArchive
  \/ Upload
  \/ RemoveZip
  \/ ReportCompleted
  \/ ReportFailed
  \/ ContainerRemove
  \/ ReportException
  \/ ContainersGet
  \/ ContainerStop
  \/ ContainerRemove2
  \/ Finally
  \/ Return

\* the agent is a sequential program that keeps running (lines 311-319)
FairSpec == Spec /\ WF_vars(AgentStep)

\* ---- properties -----------------------------------------------------------
Statuses == {sent[i].status : i \in 1..Len(sent)}

Accepted == taskId # 0

\* poll_for_task has returned to the loop and no SystemExit was unwinding
\* through it
Returned == pc = "ret" /\ interruptedAt = "none"

\* no interrupt has been delivered to the process so far
Quiet == signals = 0

\* the poll of this cycle yielded no task
NoTask == lastPoll # NoPoll /\ ~(lastPoll.status = 200 /\ lastPoll.task)

\* C1: for every accepted task exactly one terminal status update (COMPLETED
\* or FAILED) has been issued when poll_for_task returns.
C1_ExactlyOneTerminal ==
  (pc = "ret" /\ Quiet /\ Accepted) => Cardinality(TerminalUpdates) = 1

C4_TimeoutFailedAndStopped ==
  (pc = "ret" /\ Quiet /\ timedOut) => ("FAILED" \in Statuses /\ stopAttempts >= 1)

\* C5: whatever the outcome of the heartbeat request (also a request error or
\* an error response), the statement executed next is the poll of the same
\* iteration: the loop neither stops nor does anything else first.
C5_HeartbeatThenPoll ==
  [][pc = "hb_post" => pc' = "poll"]_vars

C5_Witness ==
  /\ pc = "poll"
  /\ hbOutcome = "error"
  /\ exitCode = -1

\* C6: when the poll yields no task (no task in the response, a non-200
\* response or a request error), poll_for_task returns at once: no task is
\* accepted, no workspace or sandbox is created, no status update is sent,
\* and the loop goes to its sleep and from there to its next heartbeat/poll.
C6_NoTaskNoSupervisor ==
  /\ [](NoTask => /\ pc \in {"ret", "exited"}
                  /\ ~Accepted
                  /\ ~bound
                  /\ sent = <<>>
                  /\ ~retval)
  /\ [][(pc = "poll" /\ NoTask') => UNCHANGED <<workspaces, containers, zips>>]_vars
  /\ [][(pc = "ret" /\ NoTask) => pc' \in {"sleep", "exited"}]_vars
  /\ [][pc = "sleep" => pc' \in {"poll", "hb_telemetry", "exited"}]_vars

C6_Witness ==
  /\ pc = "ret"
  /\ lastPoll.kind = "response"
  /\ lastPoll.status = 500
  /\ lastPoll.task
  /\ polls = 2

\* C7: after a non-zero exit code no archive is produced, no upload is
\* attempted and COMPLETED is never reported; when poll_for_task returns, a
\* FAILED update carrying the accumulated log buffer has been sent; COMPLETED
\* is reported only after exit code 0.
C7_NonZeroExitFailed ==
  /\ result > 0 => /\ archivesMade = 0
                   /\ uploadAttempts = 0
                   /\ "COMPLETED" \notin Statuses
  /\ (Returned /\ result > 0) =>
        \E i \in 1..Len(sent) : sent[i] = Update("FAILED", "log", full_logs)
  /\ (pc # "exited" /\ "COMPLETED" \in Statuses) => result = 0

C7_Witness ==
  /\ pc = "ret"
  /\ result = 1
  /\ full_logs = <<"a", "b">>
  /\ sent = <<Update("RUNNING", "none", <<>>), Update("FAILED", "log", <<"a", "b">>)>>

\* C8: an interrupt delivered while the loop sleeps makes exactly one offline
\* heartbeat attempt and ends the process with exit code 0, whatever the
\* outcome of that attempt; once the process has exited nothing more is sent.
C8_InterruptWhileIdle ==
  /\ [][(pc = "sleep" /\ signals' # signals) =>
          /\ offline' = offline + 1
          /\ pc' = "exited"
          /\ exitCode' = 0]_vars
  /\ [][pc = "exited" => UNCHANGED <<pc, exitCode, polls, offline, hbOutcome, sent>>]_vars

C8_Witness ==
  /\ pc = "exited"
  /\ exitCode = 0
  /\ interruptedAt = "sleep"
  /\ offlineOutcome = "timeout"
  /\ offline = 1

\* C9: when the exit code is 0 and the upload was attempted, the terminal
\* status reported is COMPLETED whether the upload got a 2xx, a non-2xx or
\* raised a transfer error.
C9_UploadFailureKeepsCompleted ==
  (pc = "ret" /\ Quiet /\ result = 0 /\ uploadAttempts = 1
     /\ errText \in {"none", "upload"}) =>
     ("COMPLETED" \in Statuses /\ "FAILED" \notin Statuses)

\* C10: whenever a poll is issued no workspace and no sandbox of an earlier
\* task exists, and at no time is there more than one workspace or sandbox.
C10_NothingLeftAtPoll ==
  Quiet =>
    /\ pc = "poll" => (workspaces = {} /\ containers = {})
    /\ Cardinality(workspaces) <= 1
    /\ Cardinality(containers) <= 1

\* statements of the heartbeat / poll loop and of poll_for_task
LoopPcs == {"hb_telemetry", "hb_post", "poll", "mkdtemp", "ret", "sleep"}
              \cup InnerTry \cup CleanupTry \cup {"finally"}

\* C11 as stated: the process exits with code 1 when no credentials exist
\* and when registration fails, and no heartbeat (the offline heartbeat of
\* signal_handler included) and no poll is sent unless a registration
\* request succeeded earlier.
C11_NothingBeforeRegistration ==
  /\ exitReason \in {"nocreds", "regfail"} => (pc = "exited" /\ exitCode = 1)
  /\ (pc \in LoopPcs \/ polls > 0 \/ hbOutcome # "none" \/ offline > 0) => registered

\* C11 as amended: the process exits with code 1 when no credentials exist
\* and when registration fails, without having sent a heartbeat or a poll;
\* no statement of the loop (send_heartbeat, poll_for_task) is reached and no
\* poll is sent unless a registration request succeeded earlier.  Only the
\* offline heartbeat of signal_handler can precede the registration.
C11_StartupOrdering ==
  /\ exitReason \in {"nocreds", "regfail"} =>
        /\ pc = "exited"
        /\ exitCode = 1
        /\ polls = 0
        /\ hbOutcome = "none"
        /\ sent = <<>>
  /\ (pc \in LoopPcs \/ polls > 0 \/ hbOutcome # "none") => registered

C11_Witness ==
  /\ pc = "exited"
  /\ exitReason = "regfail"
  /\ exitCode = 1
  /\ ~registered

\* C12: when an archive was produced and uploaded for a task, the terminal
\* status update carries a reference to it (a result_url other than None);
\* when none was produced it carries none.
C12_ResultReference ==
  (pc = "ret" /\ Quiet /\ Accepted /\ errText = "none") =>
     \A i \in TerminalUpdates :
        IF archivesMade = 1 /\ uploadAttempts = 1
          THEN sent[i].result_url # "None"
          ELSE sent[i].result_url = "None"

\* C13: every accepted task whose sandbox was launched eventually gets its
\* terminal status update and poll_for_task returns (or the process exits),
\* even when the sandbox never exits or never closes its output stream.
C13_TaskEventuallyConcludes ==
  (pc = "stream") ~> ((pc = "ret" /\ TerminalUpdates # {}) \/ pc = "exited")

\* C14: once the signal handler has run, wherever the signal was delivered,
\* one offline push was made and the process has terminated or is in the
\* finally clause on its way out; the loop is never resumed.
C14_InterruptTerminates ==
  signals > 0 => (offline = signals /\ pc \in {"exited", "finally"})

\* C15: RUNNING is sent only for a launched sandbox and only as the first
\* update of the task (so never after a terminal one); it has been sent
\* when the log loop is entered, hence before the first line is consumed,
\* and it precedes every terminal update of a launched task.
C15_RunningAfterLaunchBeforeLogs ==
  /\ \A i \in 1..Len(sent) : sent[i].status = "RUNNING" => i = 1
  /\ pc # "exited" =>
       /\ (sent # <<>> /\ sent[1].status = "RUNNING") => bound
       /\ pc = "stream" => sent = <<Update("RUNNING", "none", <<>>)>>
       /\ full_logs # <<>> => (sent # <<>> /\ sent[1].status = "RUNNING")
       /\ (bound /\ TerminalUpdates # {}) =>
            (sent[1].status = "RUNNING" /\ \A i \in TerminalUpdates : i > 1)

C15_Witness ==
  /\ pc = "ret"
  /\ bound
  /\ full_logs = <<"a", "b">>
  /\ Len(sent) = 2
  /\ sent[1].status = "RUNNING"
  /\ sent[2].status = "COMPLETED"

C17_ArchiveRemoved ==
  (pc = "ret" /\ Quiet /\ archivesMade = 1 /\ uploadAttempts = 1
     /\ errText # "rmzip") => taskId \notin zips

\* statements of poll_for_task from the acceptance of a task to its return
TaskPcs == {"mkdtemp", "finally"} \cup InnerTry \cup CleanupTry

\* C18: as long as no signal is delivered, no error of a task step or of a
\* cleanup step leaves poll_for_task: the registered process never exits,
\* every step of the task stays inside poll_for_task or returns from it,
\* the return is followed by the sleep and the sleep by the next heartbeat
\* or poll.
C18_ErrorsStayInside ==
  /\ []((Quiet /\ registered) => pc # "exited")
  /\ [][(Quiet /\ Quiet' /\ pc \in TaskPcs) => pc' \in TaskPcs \cup {"ret"}]_vars
  /\ [][(Quiet /\ Quiet' /\ pc = "ret") => pc' = "sleep"]_vars
  /\ [][(Quiet /\ Quiet' /\ pc = "sleep") => pc' \in {"hb_telemetry", "poll"}]_vars

C18_Witness ==
  /\ pc = "ret"
  /\ Quiet
  /\ errText = "remove"
  /\ rmtreeFailed
  /\ ~retval
  /\ taskId \in workspaces

\* C19 as stated: for a launched task that streamed some lines, the log
\* payload of every terminal update is the accumulated log buffer, also
\* when the task ended in FAILED through an exception or a timeout.
C19_PayloadIsBuffer ==
  (pc = "ret" /\ Quiet /\ bound /\ full_logs # <<>>) =>
     \A i \in TerminalUpdates : sent[i].text = full_logs

\* C19 as amended: a terminal update sent on the normal path (COMPLETED, or
\* FAILED for a non-zero exit code) carries the accumulated log buffer; a
\* FAILED sent because a step raised (timeout included) carries the error
\* text instead, and it is the last update once the handler has run.
C19_PayloadIsBufferOrErrorText ==
  pc # "exited" =>
    /\ \A i \in TerminalUpdates :
         /\ sent[i].kind \in {"log", "err"}
         /\ sent[i].kind = "log" =>
              /\ sent[i].text = full_logs
              /\ sent[i].status = IF result = 0 THEN "COMPLETED" ELSE "FAILED"
         /\ sent[i].kind = "err" =>
              /\ sent[i].text = <<errText>>
              /\ sent[i].status = "FAILED"
    /\ (pc \in CleanupTry \cup {"finally", "ret"} /\ interruptedAt = "none"
          /\ Accepted /\ errText # "none") =>
         (sent # <<>> /\ sent[Len(sent)] = Update("FAILED", "err", <<errText>>))
    /\ (pc \in {"remove", "finally", "ret"} /\ interruptedAt = "none"
          /\ bound /\ errText = "none") =>
         (sent # <<>> /\ sent[Len(sent)].kind = "log"
            /\ sent[Len(sent)].text = full_logs)

C19_Witness ==
  /\ pc = "ret"
  /\ timedOut
  /\ full_logs = <<"a", "b">>
  /\ sent = <<Update("RUNNING", "none", <<>>), Update("FAILED", "err", <<"timeout">>)>>

\* statements at which a sandbox has been launched and no terminal update
\* of its task has been issued yet (lines 233-268)
InFlightPcs == {"report_running", "stream", "wait", "archive", "upload",
                "rmzip", "report_completed", "report_failed"}

\* C20: when a signal arrives while a task is in flight, the process is on
\* its way out or has exited: one offline push was made, no stop or remove
\* was attempted on the sandbox, no terminal status was sent, and at the
\* exit the workspace directory of the task is gone.
C20_InterruptInFlight ==
  (interruptedAt \in InFlightPcs /\ taskId \in containers) =>
     /\ pc \in {"finally", "exited"}
     /\ offline = signals
     /\ stopAttempts = 0
     /\ removeAttempts = 0
     /\ TerminalUpdates = {}
     /\ pc = "exited" => (exitCode = 0 /\ taskId \notin workspaces)
====
